---- MODULE Spec2Model ----
(***************************************************************************)
(* A model of the two announcement scripts of pulp_demos:                  *)
(*   demo.py              community demo CSV -> youtube / blog / email     *)
(*   release_announce.py  Redmine query      -> email / blog / tweet       *)
(*                                                                         *)
(* Representation.  A Python str that the code cuts, joins, counts or      *)
(* compares is a sequence of one-character strings, "4:32" being           *)
(* <<"4", ":", "3", "2">>.  A str that the code only selects and hands to  *)
(* a template ('stable', 'new features', ...) is a TLA+ string.  An        *)
(* optional value is a set: None is {} and a present value x is {x}.       *)
(* str.format on one of the long module-level templates is the record of   *)
(* the template's name and of the values put into its fields; the short    *)
(* per-record format strings are rendered character by character.  A       *)
(* command line gives each option as two words, --option value.            *)
(***************************************************************************)
EXTENDS Integers, Sequences, FiniteSets

VARIABLES
    script,       \* which script this process runs: "none" until argv is read
    pc,           \* the position of main()
    argv,         \* the command line: for each option its value, None if not given
    csvfile,      \* demo.py: the rows of the file parse_data read, None if it read none
    youtube_slug, \* demo.py: parse_data's first result
    demos,        \* demo.py: parse_data's second result
    args,         \* release_announce.py: the namespace parse_args returns
    environ,      \* release_announce.py: os.environ once it is read, None before
    issues,       \* release_announce.py: the issues the query returned, None before
    projects,     \* release_announce.py: sorted(issues_by_project.keys())
    issue_str,    \* release_announce.py: the email's issue listing
    project_str,  \* release_announce.py: the joined project names
    stdout,       \* what has been printed, one element per block
    error         \* the exception that ended the run, "" if none

vars == <<script, pc, argv, csvfile, youtube_slug, demos, args, environ,
          issues, projects, issue_str, project_str, stdout, error>>

----------------------------------------------------------------------------
(* Bounds of the model *)

MaxRows == 3

MaxIssues == 3

----------------------------------------------------------------------------
(* Optional values *)

None == {}

Some(x) == {x}

Get(o) == CHOOSE x \in o : TRUE

----------------------------------------------------------------------------
(* Python str operations, on sequences of characters *)

\* s.startswith(p, i): p occurs in s at index i (1-based)
OccursAt(s, p, i) ==
    /\ i >= 1
    /\ i + Len(p) - 1 <= Len(s)
    /\ \A k \in 1..Len(p) : s[i + k - 1] = p[k]

\* s.find(sep) + 1: the first index at which sep occurs, 0 if there is none
Find(s, sep) ==
    LET hits == {i \in 1..Len(s) : OccursAt(s, sep, i)}
    IN  IF hits = {} THEN 0 ELSE CHOOSE i \in hits : \A j \in hits : i <= j

\* s.split(sep), sep not empty: the list of the pieces between the occurrences
RECURSIVE Split(_, _)
Split(s, sep) ==
    LET i == Find(s, sep)
    IN  IF i = 0
        THEN <<s>>
        ELSE <<SubSeq(s, 1, i - 1)>> \o Split(SubSeq(s, i + Len(sep), Len(s)), sep)

\* s.count(c) for a one-character c
Count(s, c) == Cardinality({i \in 1..Len(s) : s[i] = c})

\* s.endswith(c) for a one-character c
EndsWith(s, c) == Len(s) >= 1 /\ s[Len(s)] = c

\* s.rpartition(c)[0] for a one-character c: what precedes the last c
RPartitionHead(s, c) ==
    LET hits == {i \in 1..Len(s) : s[i] = c}
    IN  IF hits = {}
        THEN <<>>
        ELSE SubSeq(s, 1, (CHOOSE i \in hits : \A j \in hits : j <= i) - 1)

\* sep.join(list)
RECURSIVE Join(_, _)
Join(sep, list) ==
    IF Len(list) = 0 THEN <<>>
    ELSE IF Len(list) = 1 THEN list[1]
    ELSE list[1] \o sep \o Join(sep, Tail(list))

Digits == <<"0", "1", "2", "3", "4", "5", "6", "7", "8", "9">>

\* the value of a decimal digit
DigitValue(c) == (CHOOSE i \in 1..10 : Digits[i] = c) - 1

\* c is a decimal digit
IsDigit(c) == \E i \in 1..10 : Digits[i] = c

\* s.strip(), the blank being the only white space of the inputs
RECURSIVE Strip(_)
Strip(s) ==
    IF Len(s) >= 1 /\ s[1] = " " THEN Strip(Tail(s))
    ELSE IF Len(s) >= 1 /\ s[Len(s)] = " " THEN Strip(SubSeq(s, 1, Len(s) - 1))
    ELSE s

\* what int() takes after the sign: digits, with single "_" between digits
IntBodyOk(t) ==
    /\ Len(t) >= 1
    /\ IsDigit(t[1])
    /\ IsDigit(t[Len(t)])
    /\ \A i \in 1..Len(t) : IsDigit(t[i]) \/ t[i] = "_"
    /\ \A i \in 1..(Len(t) - 1) : ~(t[i] = "_" /\ t[i + 1] = "_")

\* the value of such digits
RECURSIVE IntBodyValue(_)
IntBodyValue(t) ==
    IF Len(t) = 0 THEN 0
    ELSE IF t[Len(t)] = "_" THEN IntBodyValue(SubSeq(t, 1, Len(t) - 1))
    ELSE 10 * IntBodyValue(SubSeq(t, 1, Len(t) - 1)) + DigitValue(t[Len(t)])

\* int(s) (argparse type=int): the int, None where int raises ValueError
StrToInt(s) ==
    LET t == Strip(s)
        signed == Len(t) >= 1 /\ t[1] \in {"+", "-"}
        body == IF signed THEN Tail(t) ELSE t
    IN  IF ~IntBodyOk(body) THEN None
        ELSE IF signed /\ t[1] = "-" THEN Some(0 - IntBodyValue(body))
        ELSE Some(IntBodyValue(body))

\* '{}'.format(n) for an int n
RECURSIVE IntToStr(_)
IntToStr(n) ==
    IF n < 0 THEN <<"-">> \o IntToStr(0 - n)
    ELSE IF n < 10 THEN <<Digits[n + 1]>>
    ELSE IntToStr(n \div 10) \o <<Digits[(n % 10) + 1]>>

\* argparse's _negative_number_matcher, '^-\d+$|^-\d*\.\d+$'
NegativeNumberLike(s) ==
    /\ Len(s) >= 2
    /\ s[1] = "-"
    /\ \/ \A i \in 2..Len(s) : IsDigit(s[i])
       \/ \E k \in 2..(Len(s) - 1) :
             /\ s[k] = "."
             /\ \A i \in 2..Len(s) : i # k => IsDigit(s[i])

\* the empty list, which argparse stores for an option written --option=--:
\* _get_values takes the "--" out of the arguments and is left with none. It
\* is no word: its one element is no character.
EmptyList == <<"[]">>

\* str.format of a value that is a word or the empty list
StrOf(v) == IF v = EmptyList THEN <<"[", "]">> ELSE v

\* the value of an option of type=int: an int, or the empty list
IntValue(n) == [is_list |-> FALSE, n |-> n]

ListValue == [is_list |-> TRUE, n |-> 0]

\* str.format of the value of an option of type=int
FormatNum(v) == IF v.is_list THEN <<"[", "]">> ELSE IntToStr(v.n)

\* str.startswith
StartsWith(o, p) == OccursAt(o, p, 1)

\* a word cut at its first "=", str.split('=', 1): what stands before it
BeforeEq(w) == Split(w, <<"=">>)[1]

\* what stands after the first "=" of a word that has one
AfterEq(w) == SubSeq(w, Len(BeforeEq(w)) + 2, Len(w))

\* what _parse_optional returns: None for a word that is an argument, or the
\* tuple (action, option_string, explicit_arg) for a word taken for an option;
\* the action of a word that is no option of the parser is None (known is
\* FALSE). A word that abbreviates several options is an error of the parser.
ArgumentWord == [kind |-> "A", known |-> FALSE, option |-> <<>>, explicit |-> None]

OptionWord(o, e) == [kind |-> "O", known |-> TRUE, option |-> o, explicit |-> e]

UnknownOption(w) == [kind |-> "O", known |-> FALSE, option |-> w, explicit |-> None]

AmbiguousWord == [kind |-> "ambiguous", known |-> FALSE, option |-> <<>>, explicit |-> None]

\* argparse's _get_option_tuples on a word of two characters or more: the
\* options the word can stand for. A word that begins with two "-" is cut at
\* its first "=" and stands for every option string it abbreviates, what
\* follows the "=" being the explicit argument; a word that begins with one
\* "-" stands for the short option its first two characters spell, the rest
\* being the explicit argument, and for every other option string it
\* abbreviates
OptionTuples(w, opts) ==
    IF w[2] = "-"
    THEN {OptionWord(o, IF Count(w, "=") = 0 THEN None ELSE Some(AfterEq(w)))
             : o \in {o \in opts : StartsWith(o, BeforeEq(w))}}
    ELSE {OptionWord(o, Some(SubSeq(w, 3, Len(w))))
             : o \in {o \in opts : o = SubSeq(w, 1, 2)}}
         \cup {OptionWord(o, None)
                  : o \in {o \in opts : o # SubSeq(w, 1, 2) /\ StartsWith(o, w)}}

\* argparse's _parse_optional, in the order of its tests. The test for a blank
\* comes last, after the word was matched against the option strings.
ParseOptional(w, opts) ==
    IF Len(w) = 0 THEN ArgumentWord
    ELSE IF w[1] # "-" THEN ArgumentWord
    ELSE IF w \in opts THEN OptionWord(w, None)
    ELSE IF Len(w) = 1 THEN ArgumentWord
    ELSE IF Count(w, "=") >= 1 /\ BeforeEq(w) \in opts
    THEN OptionWord(BeforeEq(w), Some(AfterEq(w)))
    ELSE IF Cardinality(OptionTuples(w, opts)) > 1 THEN AmbiguousWord
    ELSE IF Cardinality(OptionTuples(w, opts)) = 1
    THEN CHOOSE t \in OptionTuples(w, opts) : TRUE
    ELSE IF NegativeNumberLike(w) THEN ArgumentWord
    ELSE IF \E i \in 1..Len(w) : w[i] = " " THEN ArgumentWord
    ELSE UnknownOption(w)

\* ord(c), for the characters of the project names
Ord(c) ==
    CASE c = "A" -> 65
      [] c = "Z" -> 90
      [] c = "a" -> 97
      [] c = "e" -> 101
      [] c = "h" -> 104
      [] c = "l" -> 108
      [] c = "p" -> 112
      [] c = "t" -> 116

\* a < b on str: at the first difference the smaller code point, else the shorter
StrLess(a, b) ==
    LET diff == {i \in 1..Len(a) : i > Len(b) \/ a[i] # b[i]}
    IN  IF diff = {}
        THEN Len(a) < Len(b)
        ELSE LET i == CHOOSE k \in diff : \A j \in diff : k <= j
             IN  i <= Len(b) /\ Ord(a[i]) < Ord(b[i])

\* list.insert at the place that keeps a sorted list sorted
RECURSIVE Insert(_, _)
Insert(x, list) ==
    IF Len(list) = 0 THEN <<x>>
    ELSE IF StrLess(x, list[1]) THEN <<x>> \o list
    ELSE <<list[1]>> \o Insert(x, Tail(list))

\* sorted(list) of str
RECURSIVE Sorted(_)
Sorted(list) ==
    IF Len(list) = 0 THEN <<>>
    ELSE Insert(list[1], Sorted(Tail(list)))

----------------------------------------------------------------------------
(* demo.py *)

\* Demo.__init__: version is None unless the keyword is given
Demo(title, nick, min, sec, version) ==
    [title |-> title, nick |-> nick, min |-> min, sec |-> sec, version |-> version]

\* Demo.time
DemoTime(demo) == demo.min \o <<"m">> \o demo.sec \o <<"s">>

\* a faulty version_str, told apart by C9: the suffix is rendered whether or not there is a version
version_str_always(demo) ==
    <<" ", "(">> \o (IF demo.version = None THEN <<"N", "o", "n", "e">>
                     ELSE Get(demo.version)) \o <<")">>

\* Demo.version_str
version_str(demo) ==
    IF demo.version = None
    THEN <<>>
    ELSE <<" ", "(">> \o Get(demo.version) \o <<")">>

\* an exception leaving parse_data
Raise(name) == [ok |-> FALSE, error |-> name, youtube_link |-> None, demos |-> <<>>]

\* a faulty loop body, told apart by C8: the link row falls through into the demo rows (no continue)
ParseRowNoContinue(st, row) ==
    IF ~st.ok THEN st
    ELSE IF st.youtube_link = None /\ Len(row) < 1
    THEN Raise("IndexError")
    ELSE IF Len(row) < 3
    THEN Raise("IndexError")
    ELSE LET parts == Split(row[3], <<":">>)
         IN  IF Len(parts) # 2
             THEN Raise("ValueError")
             ELSE [st EXCEPT !.youtube_link = IF @ = None THEN Some(row[1]) ELSE @,
                             !.demos =
                      Append(@, Demo(row[1], row[2], parts[1], parts[2],
                                     IF Len(row) >= 4 THEN Some(row[4]) ELSE None))]

\* the body of parse_data's loop for one row, from the state (youtube_link, demos)
ParseRow(st, row) ==
    IF ~st.ok THEN st
    ELSE IF st.youtube_link = None
    THEN IF Len(row) < 1
         THEN Raise("IndexError")
         ELSE [st EXCEPT !.youtube_link = Some(row[1])]
    ELSE IF Len(row) < 3
    THEN Raise("IndexError")
    ELSE LET parts == Split(row[3], <<":">>)
         IN  IF Len(parts) # 2
             THEN Raise("ValueError")
             ELSE [st EXCEPT !.demos =
                      Append(@, Demo(row[1], row[2], parts[1], parts[2],
                                     IF Len(row) >= 4 THEN Some(row[4]) ELSE None))]

\* parse_data's loop over the rows of the file
RECURSIVE ParseRows(_, _)
ParseRows(st, rows) ==
    IF Len(rows) = 0 THEN st
    ELSE ParseRows(ParseRow(st, rows[1]), Tail(rows))

\* parse_data(args): open the file, loop over the rows, cut the slug from the link
parse_data(file) ==
    IF file = None THEN Raise("FileNotFoundError")
    ELSE LET st == ParseRows([ok |-> TRUE, error |-> "", youtube_link |-> None,
                              demos |-> <<>>], Get(file))
         IN  IF ~st.ok THEN st
             ELSE IF st.youtube_link = None THEN Raise("AttributeError")
             ELSE LET pieces == Split(Get(st.youtube_link), <<"?", "v", "=">>)
                  IN  IF Len(pieces) < 2
                      THEN Raise("IndexError")
                      ELSE [ok |-> TRUE, error |-> "", youtube_slug |-> pieces[2],
                            demos |-> st.demos]

\* the link of a demo: http://www.youtube.com/watch?v={youtube_slug}&t={time}
WatchPrefix ==
    <<"h", "t", "t", "p", ":", "/", "/", "w", "w", "w", ".", "y", "o", "u", "t", "u", "b", "e">>
        \o <<".", "c", "o", "m", "/", "w", "a", "t", "c", "h", "?", "v", "=">>

WatchUrl(slug, demo) ==
    WatchPrefix \o slug \o <<"&", "t", "=">> \o DemoTime(demo)

\* the line display_youtube_description prints for a demo
YoutubeLine(demo) ==
    demo.min \o <<":">> \o demo.sec \o <<" ">> \o demo.title \o <<" ", "(">>
        \o demo.nick \o <<")">> \o version_str(demo) \o <<"\n">>

\* the line display_pulp_list_email prints for a demo
EmailLine(slug, demo) ==
    <<"*", " ">> \o demo.title \o <<" ", "(">> \o demo.nick \o <<")">>
        \o version_str(demo) \o <<" ", "-", " ">> \o WatchUrl(slug, demo) \o <<"\n">>

\* the line display_blog_post prints for a demo
BlogLine(slug, demo) ==
    <<"[">> \o demo.title \o <<" ", "(">> \o demo.nick \o <<")">>
        \o version_str(demo) \o <<"]", "(">> \o WatchUrl(slug, demo) \o <<")", "\n">>

\* display_youtube_description: the heading, then a line for each demo
display_youtube_description(a, slug, ds) ==
    [section |-> "youtube comments", fields |-> <<>>,
     lines |-> [i \in 1..Len(ds) |-> YoutubeLine(ds[i])]]

\* display_blog_post: the front matter and the iframe, then a line for each demo
display_blog_post(a, slug, ds) ==
    [section |-> "blog", fields |-> <<slug, StrOf(a.date), StrOf(a.author)>>,
     lines |-> [i \in 1..Len(ds) |-> BlogLine(slug, ds[i])]]

\* display_pulp_list_email: the heading, a line for each demo, then the footer
display_pulp_list_email(a, slug, ds) ==
    [section |-> "email", fields |-> <<>>,
     lines |-> [i \in 1..Len(ds) |-> EmailLine(slug, ds[i])]]

\* the default of --author
DefaultAuthor ==
    <<"B", "r", "i", "a", "n", " ", "B", "o", "u", "t", "e", "r", "s", "e">>

----------------------------------------------------------------------------
(* release_announce.py *)

\* a faulty x_y_z_version, told apart by C7: any version with at least two dots is accepted
x_y_z_version_raises_below_two(version) == Count(version, ".") < 2

\* x_y_z_version: the ValueError that makes argparse reject --version
x_y_z_version_raises(version) == Count(version, ".") # 2

\* parse_args, lines 125-128: the wording
features_or_fixes(version) ==
    IF EndsWith(version, "0") THEN "new features" ELSE "bugfixes"

sBeta == <<" ", "B", "e", "t", "a", " ">>

sReleaseCandidate == <<" ", "R", "e", "l", "e", "a", "s", "e", " ", "C", "a", "n", "d", "i", "d", "a", "t", "e", " ">>

\* a faulty release_label, told apart by C5: --rc is looked at before --beta
release_label_rc_first(beta, rc) ==
    IF beta = None /\ rc = None
    THEN [beta_or_stable |-> "stable", upgrade_or_test |-> "Upgrading",
          beta_name_number |-> <<>>]
    ELSE IF rc # None
    THEN [beta_or_stable |-> "beta", upgrade_or_test |-> "Release Candidate testing",
          beta_name_number |-> sReleaseCandidate \o FormatNum(Get(rc))]
    ELSE [beta_or_stable |-> "beta", upgrade_or_test |-> "Beta testing",
          beta_name_number |-> sBeta \o FormatNum(Get(beta))]

\* parse_args, lines 130-141: the label, from args.beta and args.rc (None or
\* the value argparse stored)
release_label(beta, rc) ==
    IF beta = None /\ rc = None
    THEN [beta_or_stable |-> "stable", upgrade_or_test |-> "Upgrading",
          beta_name_number |-> <<>>]
    ELSE IF beta # None
    THEN [beta_or_stable |-> "beta", upgrade_or_test |-> "Beta testing",
          beta_name_number |-> sBeta \o FormatNum(Get(beta))]
    ELSE [beta_or_stable |-> "beta", upgrade_or_test |-> "Release Candidate testing",
          beta_name_number |-> sReleaseCandidate \o FormatNum(Get(rc))]

\* the value of an option of type=int as parse_args holds it: None if the
\* option is not given
OptInt(raw) ==
    IF raw = None THEN None
    ELSE IF Get(raw) = EmptyList THEN Some(ListValue)
    ELSE Some(IntValue(Get(StrToInt(Get(raw)))))

\* "-h", "--help" and "--"
sDashH == <<"-", "h">>

sDashDashHelp == <<"-", "-", "h", "e", "l", "p">>

sDashDash == <<"-", "-">>

\* add_argument: the option string of each dest
OptionString(dest) ==
    CASE dest = "filename" -> <<"-", "-", "f", "i", "l", "e", "n", "a", "m", "e">>
      [] dest = "date" -> <<"-", "-", "d", "a", "t", "e">>
      [] dest = "author" -> <<"-", "-", "a", "u", "t", "h", "o", "r">>
      [] dest = "version" -> <<"-", "-", "v", "e", "r", "s", "i", "o", "n">>
      [] dest = "query_num" -> <<"-", "-", "q", "u", "e", "r", "y", "-", "n", "u", "m">>
      [] dest = "beta" -> <<"-", "-", "b", "e", "t", "a">>
      [] dest = "rc" -> <<"-", "-", "r", "c">>

\* the dests of the parser of demo.py, in the order of add_argument
DemoDests == <<"filename", "date", "author">>

\* the dests of the parser of release_announce.py
ReleaseDests == <<"version", "author", "query_num", "beta", "rc">>

\* the option strings of a parser: those it was given and the help option
\* argparse adds
OptionStrings(dests) ==
    {sDashH, sDashDashHelp} \cup {OptionString(dests[k]) : k \in 1..Len(dests)}

\* an option string cut to its first three characters, which abbreviates it
Abbreviation(o) == SubSeq(o, 1, 3)

\* the word or words that give an option its value: the option string and the
\* value as two words, or one word with "=" between them, the option string in
\* full or abbreviated
Spelled(o, value, form) ==
    CASE form = "words" -> <<o, value>>
      [] form = "equals" -> <<o \o <<"=">> \o value>>
      [] form = "abbrev_equals" -> <<Abbreviation(o) \o <<"=">> \o value>>

\* the options given, each with its value, in the order of dests
RECURSIVE PairWords(_, _)
PairWords(a, dests) ==
    IF Len(dests) = 0 THEN <<>>
    ELSE (IF a[dests[1]] = None THEN <<>>
          ELSE Spelled(OptionString(dests[1]), Get(a[dests[1]]), a.form))
         \o PairWords(a, Tail(dests))

\* sys.argv[1:]: the words of a command line, with the word that asks for help
\* before or after the options, if there is one
CommandLine(a, dests) ==
    (IF a.help.at = "first" THEN <<a.help.word>> ELSE <<>>)
    \o PairWords(a, dests)
    \o (IF a.help.at = "last" THEN <<a.help.word>> ELSE <<>>)

\* _parse_known_args, the pattern of the words: "-" for the first "--", "A"
\* for every word after it, and what _parse_optional says for the others
RECURSIVE Kinds(_, _, _)
Kinds(words, opts, after) ==
    IF Len(words) = 0 THEN <<>>
    ELSE IF after THEN <<ArgumentWord>> \o Kinds(Tail(words), opts, TRUE)
    ELSE IF words[1] = sDashDash
    THEN <<[ArgumentWord EXCEPT !.kind = "-"]>> \o Kinds(Tail(words), opts, TRUE)
    ELSE <<ParseOptional(words[1], opts)>> \o Kinds(Tail(words), opts, FALSE)

\* the type= of an option raises on a word
TypeRaises(dest, w) ==
    CASE dest = "version" -> x_y_z_version_raises(w)
      [] dest \in {"query_num", "beta", "rc"} -> StrToInt(w) = None
      [] OTHER -> FALSE

\* consume_optional on the help option: it prints the help and exits, unless
\* it has an explicit argument. The explicit argument of -h is read as more
\* short options, so -hh asks for help as -h does; any other explicit
\* argument is an error
HelpOutcome(t) ==
    IF t.explicit = None THEN "help"
    ELSE IF /\ t.option = sDashH
            /\ Len(Get(t.explicit)) >= 1
            /\ \A k \in 1..Len(Get(t.explicit)) : Get(t.explicit)[k] = "h"
    THEN "help"
    ELSE "usage_error"

\* _parse_known_args, the loop over the words from word i on. A word that is
\* no option, or an option the parser does not have, is left over. The help
\* option prints and exits. An option takes its explicit argument, or else the
\* next word if that is an argument ("--" is none: _get_nargs_pattern takes
\* the "-" out of the pattern of an option); the parser exits if there is
\* neither. _get_values turns the explicit argument "--" into the empty list
\* and converts any other with the type of the option, on whose error the
\* parser exits. The value is stored under the dest, over an earlier one.
RECURSIVE Consume(_, _, _, _, _, _)
Consume(words, kinds, i, dests, ns, extras) ==
    IF i > Len(words) THEN [outcome |-> "parsed", ns |-> ns, extras |-> extras]
    ELSE IF kinds[i].kind # "O" \/ ~kinds[i].known
    THEN Consume(words, kinds, i + 1, dests, ns, TRUE)
    ELSE IF kinds[i].option \in {sDashH, sDashDashHelp}
    THEN IF HelpOutcome(kinds[i]) = "help"
         THEN [outcome |-> "help", ns |-> ns, extras |-> extras]
         ELSE [outcome |-> "usage_error", ns |-> ns, extras |-> extras]
    ELSE LET dest == dests[CHOOSE k \in 1..Len(dests) :
                              OptionString(dests[k]) = kinds[i].option]
             explicit == kinds[i].explicit
             found == explicit # None
                      \/ (i + 1 <= Len(words) /\ kinds[i + 1].kind = "A")
             word == IF explicit # None THEN Get(explicit) ELSE words[i + 1]
             stop == IF explicit # None THEN i + 1 ELSE i + 2
             is_list == explicit # None /\ word = sDashDash
         IN  IF ~found THEN [outcome |-> "usage_error", ns |-> ns, extras |-> extras]
             ELSE IF is_list
             THEN Consume(words, kinds, stop, dests,
                          [ns EXCEPT ![dest] = Some(EmptyList)], extras)
             ELSE IF TypeRaises(dest, word)
             THEN [outcome |-> "usage_error", ns |-> ns, extras |-> extras]
             ELSE Consume(words, kinds, stop, dests,
                          [ns EXCEPT ![dest] = Some(word)], extras)

\* parser.parse_args() on the words of a command line: the parser exits on an
\* ambiguous word before it looks at any option; then the words are consumed
\* in order; at the end it exits if a required option is missing or a word is
\* left over
ParserParseArgs(words, dests, required) ==
    LET kinds == Kinds(words, OptionStrings(dests), FALSE)
        none == [d \in {dests[k] : k \in 1..Len(dests)} |-> None]
        r == Consume(words, kinds, 1, dests, none, FALSE)
    IN  IF \E i \in 1..Len(kinds) : kinds[i].kind = "ambiguous"
        THEN [outcome |-> "usage_error", ns |-> none, extras |-> FALSE]
        ELSE IF r.outcome = "parsed"
                /\ (r.extras \/ \E d \in required : r.ns[d] = None)
        THEN [outcome |-> "usage_error", ns |-> r.ns, extras |-> r.extras]
        ELSE r

\* parser.print_help(), the block the help option writes to stdout
format_help(dests) == [section |-> "help", fields |-> dests, lines |-> <<>>]

\* the abbreviated names of the months, %b
MonthAbbr ==
    << <<"J", "a", "n">>,
       <<"F", "e", "b">>,
       <<"M", "a", "r">>,
       <<"A", "p", "r">>,
       <<"M", "a", "y">>,
       <<"J", "u", "n">>,
       <<"J", "u", "l">>,
       <<"A", "u", "g">>,
       <<"S", "e", "p">>,
       <<"O", "c", "t">>,
       <<"N", "o", "v">>,
       <<"D", "e", "c">> >>

\* time.strftime("%b %d, %Y") of a local time: the month's name, the day in
\* two digits, the year
strftime(t) ==
    MonthAbbr[t.tm_mon] \o <<" ">>
    \o <<Digits[(t.tm_mday \div 10) + 1], Digits[(t.tm_mday % 10) + 1]>>
    \o <<",", " ">> \o IntToStr(t.tm_year)

\* parse_args of demo.py, for a command line the parser accepts: the options
\* stored, the default of --date being the local date of the run
demo_parse_args(ns, today) ==
    [filename |-> Get(ns.filename),
     date |-> IF ns.date = None THEN today ELSE Get(ns.date),
     author |-> IF ns.author = None THEN DefaultAuthor ELSE Get(ns.author)]

\* line 125: args.version.endswith raises AttributeError if args.version is the
\* empty list
release_parse_args_raises(ns) == Get(ns.version) = EmptyList

\* parse_args of release_announce.py, for a command line the parser accepts
release_parse_args(ns) ==
    LET beta == OptInt(ns.beta)
        rc == OptInt(ns.rc)
        label == release_label(beta, rc)
    IN  [version |-> Get(ns.version), author |-> Get(ns.author),
         query_num |-> Get(OptInt(ns.query_num)),
         beta |-> beta, rc |-> rc,
         features_or_fixes |-> features_or_fixes(Get(ns.version)),
         beta_or_stable |-> label.beta_or_stable,
         upgrade_or_test |-> label.upgrade_or_test,
         beta_name_number |-> label.beta_name_number]

\* the keys of issues_by_project, in the order the dict got them
RECURSIVE ProjectKeys(_)
ProjectKeys(iss) ==
    IF Len(iss) = 0 THEN <<>>
    ELSE LET rest == ProjectKeys(SubSeq(iss, 1, Len(iss) - 1))
             name == iss[Len(iss)].project
         IN  IF \E i \in 1..Len(rest) : rest[i] = name THEN rest ELSE Append(rest, name)

\* issues_by_project[project_name]: the project's issues in fetch order
issues_by_project(iss, name) == SelectSeq(iss, LAMBDA i : i.project = name)

\* a faulty sorted_projects, told apart by C6: the keys are used in the order the dict got them
unsorted_projects(iss) == ProjectKeys(iss)

\* projects = sorted(issues_by_project.keys())
sorted_projects(iss) == Sorted(ProjectKeys(iss))

\* '\t{num}\t{subject}\n'
EmailIssueLine(issue) ==
    <<"\t">> \o IntToStr(issue.id) \o <<"\t">> \o issue.subject \o <<"\n">>

\* '- [{num}\t{subject}]({url})\n'
BlogIssueLine(issue) ==
    <<"-", " ", "[">> \o IntToStr(issue.id) \o <<"\t">> \o issue.subject
        \o <<"]", "(">> \o issue.url \o <<")", "\n">>

\* the concatenation of the strings of a list
RECURSIVE Concat(_)
Concat(list) == IF Len(list) = 0 THEN <<>> ELSE list[1] \o Concat(Tail(list))

\* lines 153-158: the email's issue listing
email_issue_str(iss, ps) ==
    Concat([k \in 1..Len(ps) |->
        <<"\n">> \o ps[k] \o <<"\n">>
            \o Concat([j \in 1..Len(issues_by_project(iss, ps[k])) |->
                          EmailIssueLine(issues_by_project(iss, ps[k])[j])])])

\* lines 171-177: the blog's issue listing
template_issue_str(iss, ps) ==
    Concat([k \in 1..Len(ps) |->
        <<"\n", "#", "#", "#", " ">> \o ps[k] \o <<"\n">>
            \o Concat([j \in 1..Len(issues_by_project(iss, ps[k])) |->
                          BlogIssueLine(issues_by_project(iss, ps[k])[j])])])

\* a faulty project_join, told apart by C1: a single project is rendered as its name alone
project_join_single_case(ps) ==
    IF Len(ps) = 1 THEN ps[1]
    ELSE Join(<<",", " ">>, SubSeq(ps, 1, Len(ps) - 1))
             \o <<",", " ", "a", "n", "d", " ">> \o ps[Len(ps)]

\* line 160, for a list that is not empty (projects[-1] raises on an empty one)
project_join(ps) ==
    Join(<<",", " ">>, SubSeq(ps, 1, Len(ps) - 1))
        \o <<",", " ", "a", "n", "d", " ">> \o ps[Len(ps)]

\* line 160: whether projects[-1] raises IndexError
project_join_raises(ps) == Len(ps) = 0

\* EMAIL_TEMPLATE.format(...)
email_msg(a, istr, pstr) ==
    [section |-> "EMAIL_TEMPLATE",
     fields |-> [issue_str |-> istr, projects |-> pstr, full_version |-> a.version,
                 x_y_version |-> RPartitionHead(a.version, "."),
                 beta_or_stable |-> a.beta_or_stable,
                 features_or_fixes |-> a.features_or_fixes,
                 beta_name_number |-> a.beta_name_number],
     lines |-> <<>>]

\* BLOG_POST_TEMPLATE.format(...)
blog_msg(a, tstr, pstr) ==
    [section |-> "BLOG_POST_TEMPLATE",
     fields |-> [issue_str |-> tstr, projects |-> pstr, full_version |-> a.version,
                 author |-> StrOf(a.author),
                 beta_or_stable |-> a.beta_or_stable,
                 features_or_fixes |-> a.features_or_fixes,
                 beta_name_number |-> a.beta_name_number],
     lines |-> <<>>]

\* TWEET_TEMPLATE.format(...)
tweet_msg(a, pstr) ==
    [section |-> "TWEET_TEMPLATE",
     fields |-> [full_version |-> a.version, projects |-> pstr,
                 features_or_fixes |-> a.features_or_fixes,
                 upgrade_or_test |-> a.upgrade_or_test,
                 beta_name_number |-> a.beta_name_number],
     lines |-> <<>>]

\* print('---------------------------------------------------\n')
Divider == [section |-> "divider", fields |-> <<>>, lines |-> <<>>]

----------------------------------------------------------------------------
(* The inputs of a run *)

\* the sequences over S of length at most n
SeqsUpTo(S, n) == UNION {[1..k -> S] : k \in 0..n}

\* rows csv.reader can yield: watch links (plain, without ?v=, with a second
\* ?v=), a blank line, demo rows of three and four columns (one with an empty
\* fourth column), a row of two columns, and rows whose time is no number, has
\* three parts or has no colon
RowSamples ==
    { <<<<"u", "?", "v", "=", "a", "b">>>>,
      <<<<"u">>>>,
      <<<<"u", "?", "v", "=", "a", "?", "v", "=", "b">>>>,
      <<>>,
      <<<<"T", "1">>, <<"n", "1">>, <<"4", ":", "3", "2">>>>,
      <<<<"T", "2">>, <<"n", "2">>, <<"7", ":", "4", "2">>, <<"2", ".", "1">>>>,
      <<<<"T", "3">>, <<"n", "3">>, <<"0", ":", "1", "5">>, <<>>>>,
      <<<<"T", "4">>, <<"n", "4">>>>,
      <<<<"T", "5">>, <<"n", "5">>, <<"x", ":", "5">>>>,
      <<<<"T", "6">>, <<"n", "6">>, <<"1", ":", "2", ":", "3">>>>,
      <<<<"T", "7">>, <<"n", "7">>, <<"1", "5">>>> }

\* the files --filename can name: None is a file that cannot be opened
CsvFiles == {None} \cup {Some(rows) : rows \in SeqsUpTo(RowSamples, MaxRows)}

\* values of --version: final components 0 and 10, one dot and three dots, a
\* word that looks like an option, the same with a blank in it, whose final
\* component is 3, and "--"
VersionSamples ==
    { <<"2", ".", "1", "4", ".", "0">>,
      <<"2", ".", "1", "4", ".", "1", "0">>,
      <<"2", ".", "1", "4">>,
      <<"2", ".", "1", "4", ".", "0", ".", "1">>,
      <<"-", "1", ".", "2", ".", "3">>,
      <<"-", " ", "1", ".", "2", ".", "3">>,
      sDashDash }

\* values of --beta: not given, decimal digits, a word that is no number, a
\* negative number, and "--"
BuildSamples ==
    { None, Some(<<"0", "2">>), Some(<<"x">>), Some(<<"-", "1">>), Some(sDashDash) }

\* values of --author of release_announce.py
AuthorSamples == {None, Some(<<"A", "n", "n">>), Some(sDashDash)}

\* values of --rc: not given, a digit after a blank, and the help option
\* followed by a blank and more
RcSamples == {None, Some(<<" ", "7">>), Some(<<"-", "h", " ", "1">>)}

\* how a command line asks for help: not at all, with -h before the options,
\* or after them with an abbreviation of --help, with -hh, or with -h and an
\* explicit argument
HelpSamples ==
    { [at |-> "none", word |-> <<>>], [at |-> "first", word |-> sDashH] }
    \cup {[at |-> "last", word |-> w]
             : w \in {<<"-", "-", "h", "e">>, <<"-", "h", "h">>, <<"-", "h", "x">>}}

\* how the options of a command line are spelled
FormSamples == {"words", "equals", "abbrev_equals"}

\* values of --query-num: a number, and a word that abbreviates every long
\* option
QuerySamples == {Some(<<"5", "9">>), Some(<<"-", "-", "=", "x">>)}

\* command lines of demo.py
DemoArgvs ==
    [filename : {None, Some(<<"d", ".", "c", "s", "v">>), Some(sDashDash)},
     date : {None, Some(<<"M", "a", "y", " ", "4">>)},
     author : {None, Some(<<"A", "n", "n">>)},
     help : HelpSamples,
     form : {"words", "equals"}]

\* command lines of release_announce.py
ReleaseArgvs ==
    [version : {None} \cup {Some(v) : v \in VersionSamples},
     author : AuthorSamples,
     query_num : QuerySamples,
     beta : BuildSamples,
     rc : RcSamples,
     help : HelpSamples,
     form : FormSamples]

\* the local time of a run, time.localtime()
LocalTimes ==
    { [tm_year |-> 2026, tm_mon |-> 10, tm_mday |-> 31],
      [tm_year |-> 2027, tm_mon |-> 1, tm_mday |-> 5] }

\* issues of the tracker
IssueSamples ==
    { [id |-> 12, subject |-> <<"f", "x">>, project |-> <<"Z", "e", "t", "a">>, url |-> <<"u", "a">>],
      [id |-> 7, subject |-> <<"d", "o", "c">>, project |-> <<"A", "l", "p", "h", "a">>, url |-> <<"u", "b">>],
      [id |-> 305, subject |-> <<"r", "m">>, project |-> <<"Z", "e", "t", "a">>, url |-> <<"u", "c">>],
      [id |-> 48, subject |-> <<"u", "p">>, project |-> <<"A", "l">>, url |-> <<"u", "d">>] }

\* what a query can return: each issue at most once, in any order
IssueLists ==
    {l \in SeqsUpTo(IssueSamples, MaxIssues) :
        \A i, j \in 1..Len(l) : i # j => l[i] # l[j]}

\* the ways redmine.issue.filter can fail
FetchErrors == {"AuthError", "ResourceNotFoundError"}

----------------------------------------------------------------------------
(* The runs *)

Init ==
    /\ script = "none"
    /\ pc = "start"
    /\ argv = <<>>
    /\ csvfile = None
    /\ youtube_slug = <<>>
    /\ demos = <<>>
    /\ args = <<>>
    /\ environ = None
    /\ issues = None
    /\ projects = <<>>
    /\ issue_str = <<>>
    /\ project_str = <<>>
    /\ stdout = <<>>
    /\ error = ""

\* demo.py main, line 65: args = parse_args(). The parser is built with the
\* local date as the default of --date; on the help option it prints the help
\* and exits with status 0, on a usage error it exits with status 2, before
\* the file is looked at
DemoParseArgs ==
    /\ pc = "start"
    /\ \E a \in DemoArgvs, now \in LocalTimes :
        LET r == ParserParseArgs(CommandLine(a, DemoDests), DemoDests, {"filename"})
        IN  /\ argv' = a
            /\ CASE r.outcome = "help" ->
                      /\ pc' = "help_exit"
                      /\ error' = "SystemExit(0)"
                      /\ stdout' = Append(stdout, format_help(DemoDests))
                      /\ args' = args
                 [] r.outcome = "usage_error" ->
                      /\ pc' = "usage_error"
                      /\ error' = "SystemExit(2)"
                      /\ stdout' = stdout
                      /\ args' = args
                 [] r.outcome = "parsed" ->
                      /\ pc' = "demo_args"
                      /\ error' = error
                      /\ stdout' = stdout
                      /\ args' = demo_parse_args(r.ns, strftime(now))
    /\ script' = "demo"
    /\ UNCHANGED <<csvfile, youtube_slug, demos, environ, issues, projects,
                   issue_str, project_str>>

\* demo.py main, line 66: youtube_slug, demos = parse_data(args), which opens
\* and reads the file --filename names; open raises TypeError on a filename
\* that is the empty list
DemoParseData ==
    /\ pc = "demo_args"
    /\ IF args.filename = EmptyList
       THEN /\ pc' = "aborted"
            /\ error' = "TypeError"
            /\ UNCHANGED <<csvfile, youtube_slug, demos>>
       ELSE \E file \in CsvFiles :
              LET r == parse_data(file)
              IN  /\ csvfile' = file
                  /\ IF r.ok
                     THEN /\ youtube_slug' = r.youtube_slug
                          /\ demos' = r.demos
                          /\ pc' = "demo_parsed"
                          /\ error' = error
                     ELSE /\ pc' = "aborted"
                          /\ error' = r.error
                          /\ UNCHANGED <<youtube_slug, demos>>
    /\ UNCHANGED <<script, argv, args, environ, issues, projects, issue_str,
                   project_str, stdout>>

\* demo.py main, line 67
DemoDisplayYoutube ==
    /\ pc = "demo_parsed"
    /\ stdout' = Append(stdout, display_youtube_description(args, youtube_slug, demos))
    /\ pc' = "demo_youtube"
    /\ UNCHANGED <<script, argv, csvfile, youtube_slug, demos, args, environ,
                   issues, projects, issue_str, project_str, error>>

\* demo.py main, line 68
DemoDisplayBlog ==
    /\ pc = "demo_youtube"
    /\ stdout' = Append(stdout, display_blog_post(args, youtube_slug, demos))
    /\ pc' = "demo_blog"
    /\ UNCHANGED <<script, argv, csvfile, youtube_slug, demos, args, environ,
                   issues, projects, issue_str, project_str, error>>

\* demo.py main, line 69
DemoDisplayEmail ==
    /\ pc = "demo_blog"
    /\ stdout' = Append(stdout, display_pulp_list_email(args, youtube_slug, demos))
    /\ pc' = "done"
    /\ UNCHANGED <<script, argv, csvfile, youtube_slug, demos, args, environ,
                   issues, projects, issue_str, project_str, error>>

\* release_announce.py main, line 196: args = parse_args(). On the help option
\* the parser prints the help and exits with status 0, on a usage error it
\* exits with status 2; parse_args raises AttributeError on a version that is
\* the empty list; all of it before print_announcements is called
ReleaseParseArgs ==
    /\ pc = "start"
    /\ \E a \in ReleaseArgvs :
        LET r == ParserParseArgs(CommandLine(a, ReleaseDests), ReleaseDests,
                                 {"version", "author", "query_num"})
        IN  /\ argv' = a
            /\ CASE r.outcome = "help" ->
                      /\ pc' = "help_exit"
                      /\ error' = "SystemExit(0)"
                      /\ stdout' = Append(stdout, format_help(ReleaseDests))
                      /\ args' = args
                 [] r.outcome = "usage_error" ->
                      /\ pc' = "usage_error"
                      /\ error' = "SystemExit(2)"
                      /\ stdout' = stdout
                      /\ args' = args
                 [] r.outcome = "parsed" /\ release_parse_args_raises(r.ns) ->
                      /\ pc' = "aborted"
                      /\ error' = "AttributeError"
                      /\ stdout' = stdout
                      /\ args' = args
                 [] r.outcome = "parsed" /\ ~release_parse_args_raises(r.ns) ->
                      /\ pc' = "rel_args"
                      /\ error' = error
                      /\ stdout' = stdout
                      /\ args' = release_parse_args(r.ns)
    /\ script' = "release"
    /\ UNCHANGED <<csvfile, youtube_slug, demos, environ, issues, projects,
                   issue_str, project_str>>

\* print_announcements, line 147: os.environ['REDMINE_KEY']
ReleaseReadKey ==
    /\ pc = "rel_args"
    /\ \E key \in {None, Some("secret")} :
        /\ environ' = Some([REDMINE_KEY |-> key])
        /\ IF key = None
           THEN pc' = "aborted" /\ error' = "KeyError"
           ELSE pc' = "rel_key" /\ error' = error
    /\ UNCHANGED <<script, argv, csvfile, youtube_slug, demos, args, issues,
                   projects, issue_str, project_str, stdout>>

\* print_announcements, line 148: the query succeeds
ReleaseFetch ==
    /\ pc = "rel_key"
    /\ \E l \in IssueLists : issues' = Some(l)
    /\ pc' = "rel_fetched"
    /\ UNCHANGED <<script, argv, csvfile, youtube_slug, demos, args, environ,
                   projects, issue_str, project_str, stdout, error>>

\* print_announcements, line 148: the query fails
ReleaseFetchFails ==
    /\ pc = "rel_key"
    /\ \E e \in FetchErrors : error' = e
    /\ pc' = "aborted"
    /\ UNCHANGED <<script, argv, csvfile, youtube_slug, demos, args, environ,
                   issues, projects, issue_str, project_str, stdout>>

\* a faulty grouping step, told apart by C10: the issue listing is printed as soon as it is built, before the join
ReleaseGroupPrintsListing ==
    /\ pc = "rel_fetched"
    /\ projects' = sorted_projects(Get(issues))
    /\ issue_str' = email_issue_str(Get(issues), projects')
    /\ stdout' = Append(stdout, [section |-> "issues", fields |-> <<>>,
                                 lines |-> <<issue_str'>>])
    /\ IF project_join_raises(projects')
       THEN /\ pc' = "aborted"
            /\ error' = "IndexError"
            /\ project_str' = project_str
       ELSE /\ pc' = "rel_joined"
            /\ error' = error
            /\ project_str' = project_join(projects')
    /\ UNCHANGED <<script, argv, csvfile, youtube_slug, demos, args, environ,
                   issues>>

\* print_announcements, lines 149-166: group, list the issues, join the names
ReleaseGroup ==
    /\ pc = "rel_fetched"
    /\ projects' = sorted_projects(Get(issues))
    /\ issue_str' = email_issue_str(Get(issues), projects')
    /\ IF project_join_raises(projects')
       THEN /\ pc' = "aborted"
            /\ error' = "IndexError"
            /\ project_str' = project_str
       ELSE /\ pc' = "rel_joined"
            /\ error' = error
            /\ project_str' = project_join(projects')
    /\ UNCHANGED <<script, argv, csvfile, youtube_slug, demos, args, environ,
                   issues, stdout>>

\* print_announcements, lines 162-169
ReleasePrintEmail ==
    /\ pc = "rel_joined"
    /\ stdout' = stdout \o <<email_msg(args, issue_str, project_str), Divider>>
    /\ pc' = "rel_email"
    /\ UNCHANGED <<script, argv, csvfile, youtube_slug, demos, args, environ,
                   issues, projects, issue_str, project_str, error>>

\* print_announcements, lines 171-186
ReleasePrintBlog ==
    /\ pc = "rel_email"
    /\ stdout' = stdout \o
          <<blog_msg(args, template_issue_str(Get(issues), projects), project_str),
            Divider>>
    /\ pc' = "rel_blog"
    /\ UNCHANGED <<script, argv, csvfile, youtube_slug, demos, args, environ,
                   issues, projects, issue_str, project_str, error>>

\* print_announcements, lines 188-192
ReleasePrintTweet ==
    /\ pc = "rel_blog"
    /\ stdout' = Append(stdout, tweet_msg(args, project_str))
    /\ pc' = "done"
    /\ UNCHANGED <<script, argv, csvfile, youtube_slug, demos, args, environ,
                   issues, projects, issue_str, project_str, error>>

Next ==
    \/ DemoParseArgs
    \/ DemoParseData
    \/ DemoDisplayYoutube
    \/ DemoDisplayBlog
    \/ DemoDisplayEmail
    \/ ReleaseParseArgs
    \/ ReleaseReadKey
    \/ ReleaseFetch
    \/ ReleaseFetchFails
    \/ ReleaseGroup
    \/ ReleasePrintEmail
    \/ ReleasePrintBlog
    \/ ReleasePrintTweet

Spec == Init /\ [][Next]_vars

----------------------------------------------------------------------------
(* The claims *)

sAlpha == <<"A", "l", "p", "h", "a">>

sZeta == <<"Z", "e", "t", "a">>

\* the positions of release_announce.py at which the join has been made
Joined == {"rel_joined", "rel_email", "rel_blog", "done"}

\* the positions of demo.py at which parse_data has returned
Parsed == {"demo_parsed", "demo_youtube", "demo_blog", "done"}

\* s ends with t
C1_HasSuffix(s, t) ==
    Len(s) >= Len(t) /\ SubSeq(s, Len(s) - Len(t) + 1, Len(s)) = t

\* the first k names, each two separated by ", "
RECURSIVE C1_Commas(_, _)
C1_Commas(ps, k) ==
    IF k = 0 THEN <<>>
    ELSE IF k = 1 THEN ps[1]
    ELSE C1_Commas(ps, k - 1) \o <<",", " ">> \o ps[k]

\* C1: once the names are joined, the project string is the names but the last
\* joined by ", ", then ", and ", then the last name, whatever the number
\* n >= 1 of projects; it is "Alpha, and Zeta" for Alpha and Zeta and ends in
\* "and Alpha" for Alpha alone; every template printed carries that string.
C1_ProjectString ==
    (script = "release" /\ pc \in Joined) =>
        /\ Len(projects) >= 1
        /\ project_str = C1_Commas(projects, Len(projects) - 1)
                            \o <<",", " ", "a", "n", "d", " ">>
                            \o projects[Len(projects)]
        /\ (projects = <<sAlpha, sZeta>> => project_str = <<"A", "l", "p", "h", "a", ",", " ", "a", "n", "d", " ", "Z", "e", "t", "a">>)
        /\ (projects = <<sAlpha>> => C1_HasSuffix(project_str, <<"a", "n", "d", " ", "A", "l", "p", "h", "a">>))
        /\ \A i \in 1..Len(stdout) :
               stdout[i].section # "divider" => stdout[i].fields.projects = project_str
        /\ (pc = "done" =>
               {stdout[i].section : i \in 1..Len(stdout)} =
                   {"EMAIL_TEMPLATE", "BLOG_POST_TEMPLATE", "TWEET_TEMPLATE", "divider"})

\* C1 witness: a run with a single project has printed all three templates
C1_Witness ==
    script = "release" /\ pc = "done" /\ Len(projects) = 1 /\ Len(stdout) = 5

\* C2: a query that returns no issue does not end the run with an index error.
C2_EmptyListGuarded ==
    (script = "release" /\ issues # None /\ Len(Get(issues)) = 0) =>
        error # "IndexError"

\* parse_args has returned: the command line was accepted
Accepted ==
    /\ pc \notin {"start", "usage_error", "help_exit"}
    /\ ~(script = "release" /\ error = "AttributeError")

\* what follows the last "." of a version
C3_FinalComponent(v) ==
    LET dots == {i \in 1..Len(v) : v[i] = "."}
        last == CHOOSE i \in dots : \A j \in dots : j <= i
    IN  SubSeq(v, last + 1, Len(v))

\* a component that is the number zero
C3_IsZero(c) == Len(c) >= 1 /\ \A i \in 1..Len(c) : c[i] = "0"

\* C3: for an accepted version the wording is 'new features' exactly when the
\* final component is zero, and 'bugfixes' otherwise.
C3_WordingByFinalComponent ==
    (script = "release" /\ Accepted) =>
        /\ args.features_or_fixes \in {"new features", "bugfixes"}
        /\ (args.features_or_fixes = "new features"
               <=> C3_IsZero(C3_FinalComponent(Get(argv.version))))

\* a str int() converts: decimal digits, at least one
C4_IsNumber(t) ==
    Len(t) >= 1 /\ \A i \in 1..Len(t) : \E d \in 1..10 : Digits[d] = t[i]

\* a time that has exactly one ":" with a number on either side
C4_GoodTime(t) ==
    \E k \in 1..Len(t) :
        /\ t[k] = ":"
        /\ C4_IsNumber(SubSeq(t, 1, k - 1))
        /\ C4_IsNumber(SubSeq(t, k + 1, Len(t)))

\* C4: once parse_data is over, a file with a data row of fewer than three
\* columns, or whose time is not two numbers around one colon, has made it fail
\* and has yielded no record.
C4_BadRowsRejected ==
    (script = "demo" /\ pc # "demo_args" /\ csvfile # None) =>
        LET rows == Get(csvfile)
        IN  (\E i \in 2..Len(rows) : Len(rows[i]) < 3 \/ ~C4_GoodTime(rows[i][3]))
                => (pc = "aborted" /\ demos = <<>>)

\* a word that is a whole number as one writes it: digits, after "-" or not
PlainInteger(t) ==
    LET body == IF Len(t) >= 1 /\ t[1] = "-" THEN Tail(t) ELSE t
    IN  Len(body) >= 1 /\ \A i \in 1..Len(body) : \E d \in 1..10 : Digits[d] = body[i]

\* a value that is absent or does not begin with "-"
NoDash(o) == o = None \/ Len(Get(o)) = 0 \/ Get(o)[1] # "-"

\* the value of an option is a word of its own on the command line
SeparateWord(a) == a.form = "words"

\* a command line with nothing to reject but, possibly, its --version: it
\* does not ask for help, author and query number are given, the author does
\* not begin with "-", the numbers are plain integers
RestAcceptable(a) ==
    /\ a.help.at = "none"
    /\ a.author # None /\ NoDash(a.author)
    /\ a.query_num # None /\ PlainInteger(Get(a.query_num))
    /\ (a.beta # None => PlainInteger(Get(a.beta)))
    /\ (a.rc # None => PlainInteger(Strip(Get(a.rc))))

\* parse_args returns on the command line a: the parser parses it and line 125
\* does not raise
Accepts(a) ==
    LET r == ParserParseArgs(CommandLine(a, ReleaseDests), ReleaseDests,
                             {"version", "author", "query_num"})
    IN  r.outcome = "parsed" /\ ~release_parse_args_raises(r.ns)

\* the digits of a number without its leading zeros
RECURSIVE C5_NoLeadingZeros(_)
C5_NoLeadingZeros(t) ==
    IF Len(t) > 1 /\ t[1] = "0" THEN C5_NoLeadingZeros(Tail(t)) ELSE t

\* the number a word stands for, as it is printed: blanks, "_" and "+" dropped,
\* leading zeros dropped, "-" kept unless the number is zero; the value of
\* --beta=-- or --rc=-- is the empty list, printed as []
C5_Number(raw) ==
    LET word == SelectSeq(raw, LAMBDA c : c \notin {" ", "_", "+"})
        minus == Len(word) >= 1 /\ word[1] = "-"
        digits == C5_NoLeadingZeros(IF minus THEN Tail(word) ELSE word)
    IN  IF raw = <<"-", "-">> THEN <<"[", "]">>
        ELSE IF minus /\ digits # <<"0">> THEN <<"-">> \o digits ELSE digits

\* C5: the label is fixed by the pair (--beta, --rc): neither gives 'stable',
\* 'Upgrading' and no suffix; --beta, with or without --rc, gives ' Beta {n}'
\* and 'Beta testing'; --rc alone gives ' Release Candidate {n}' and 'Release
\* Candidate testing'. Giving both is never a reason to reject: a command with
\* both, however its options are spelled, is accepted when it has nothing
\* else to reject, and one that is rejected is rejected as well with its
\* --beta alone or with its --rc alone.
C5_LabelPrecedence ==
    script = "release" =>
        /\ ( /\ argv.beta # None /\ argv.rc # None
             /\ RestAcceptable(argv)
             /\ argv.version # None /\ NoDash(argv.version)
             /\ Count(Get(argv.version), ".") = 2
             => Accepted )
        /\ (argv.beta # None /\ argv.rc # None /\ ~Accepted =>
               \/ ~Accepts([argv EXCEPT !.rc = None])
               \/ ~Accepts([argv EXCEPT !.beta = None]))
        /\ (Accepted =>
              /\ (argv.beta = None /\ argv.rc = None =>
                    /\ args.beta_or_stable = "stable"
                    /\ args.upgrade_or_test = "Upgrading"
                    /\ args.beta_name_number = <<>>)
              /\ (argv.beta # None =>
                    /\ args.beta_or_stable = "beta"
                    /\ args.upgrade_or_test = "Beta testing"
                    /\ args.beta_name_number =
                          <<" ", "B", "e", "t", "a", " ">> \o C5_Number(Get(argv.beta)))
              /\ (argv.beta = None /\ argv.rc # None =>
                    /\ args.beta_or_stable = "beta"
                    /\ args.upgrade_or_test = "Release Candidate testing"
                    /\ args.beta_name_number =
                          <<" ", "R", "e", "l", "e", "a", "s", "e", " ", "C", "a", "n", "d", "i", "d", "a", "t", "e", " ">>
                              \o C5_Number(Get(argv.rc))))

\* C5 witness: a command with both flags, written with "=", has been accepted
C5_Witness ==
    /\ script = "release" /\ pc = "rel_args"
    /\ argv.beta # None /\ argv.rc # None /\ argv.form = "equals"

\* a comes before b: a is a proper prefix of b, or at the first place they
\* differ a has the smaller code point
C6_Before(a, b) ==
    \E k \in 1..(Len(b)) :
        /\ k <= Len(a) + 1
        /\ \A j \in 1..(k - 1) : a[j] = b[j]
        /\ (k = Len(a) + 1 \/ Ord(a[k]) < Ord(b[k]))

\* the sections of the email's listing: its lines that are not empty and do not
\* start with a tab
C6_EmailSections(listing) ==
    SelectSeq(Split(listing, <<"\n">>), LAMBDA l : Len(l) > 0 /\ l[1] # "\t")

\* the sections of the blog's listing: what follows "### " on the lines that
\* start with it
C6_BlogSections(listing) ==
    LET heads == SelectSeq(Split(listing, <<"\n">>),
                           LAMBDA l : OccursAt(l, <<"#", "#", "#", " ">>, 1))
    IN  [i \in 1..Len(heads) |-> SubSeq(heads[i], 5, Len(heads[i]))]

\* the names of a list are those of the set, each once, in ascending order
C6_AscendingOver(list, names) ==
    /\ {list[i] : i \in 1..Len(list)} = names
    /\ \A i \in 1..(Len(list) - 1) : C6_Before(list[i], list[i + 1])

\* C6: in the email's listing and in the blog's, the project sections are the
\* distinct project names of the fetched issues in ascending order, each once,
\* in whatever order the issues came; Alpha precedes Zeta.
C6_SortedSections ==
    (script = "release" /\ pc \in {"rel_email", "rel_blog", "done"}) =>
        LET names == {Get(issues)[i].project : i \in 1..Len(Get(issues))}
            email == C6_EmailSections(stdout[1].fields.issue_str)
        IN  /\ C6_AscendingOver(email, names)
            /\ (names = {sAlpha, sZeta} => email = <<sAlpha, sZeta>>)
            /\ (pc \in {"rel_blog", "done"} =>
                   C6_BlogSections(stdout[3].fields.issue_str) = email)

\* C6 witness: Zeta was fetched before Alpha and both listings are printed
C6_Witness ==
    /\ script = "release" /\ pc = "done"
    /\ Len(Get(issues)) >= 2
    /\ Get(issues)[1].project = sZeta
    /\ Get(issues)[2].project = sAlpha

\* a --version value that is a word of its own and that argparse takes for an
\* option, which leaves --version with no value
C7_TakenForOption(a) ==
    /\ SeparateWord(a)
    /\ ParseOptional(Get(a.version), OptionStrings(ReleaseDests)).kind # "A"

\* parse_args has stopped the run: nothing was read, queried or printed, and
\* nothing follows
C7_StoppedBeforeExecution ==
    /\ environ = None
    /\ issues = None
    /\ stdout = <<>>
    /\ ~ENABLED Next

\* a command line with nothing to reject but, possibly, its --version: it is
\* accepted with the version 1.2.3 in the place of its own
C7_OtherwiseAcceptable(a) ==
    Accepts([a EXCEPT !.version = Some(<<"1", ".", "2", ".", "3">>)])

C8_Marks(link) == {k \in 1..Len(link) : OccursAt(link, <<"?", "v", "=">>, k)}

\* a well-formed file: a watch link with one ?v= in the first row, then rows of
\* a title, a nickname, a time M:SS and at most a version
C8_WellFormed(rows) ==
    /\ Len(rows) >= 1
    /\ Len(rows[1]) >= 1
    /\ Cardinality(C8_Marks(rows[1][1])) = 1
    /\ \A i \in 2..Len(rows) : Len(rows[i]) \in {3, 4} /\ C4_GoodTime(rows[i][3])

\* C8: a parse that succeeds returns one record for each row but the first, in
\* the order of the file, the i-th from row i+1; a well-formed file of R rows
\* is parsed with success, and its slug is what follows ?v= in the first row.
C8_RecordPerDataRow ==
    (script = "demo" /\ pc # "demo_args" /\ csvfile # None) =>
        LET rows == Get(csvfile)
        IN  /\ (C8_WellFormed(rows) =>
                  /\ pc \in Parsed
                  /\ LET k == CHOOSE k \in C8_Marks(rows[1][1]) : TRUE
                     IN  youtube_slug = SubSeq(rows[1][1], k + 3, Len(rows[1][1])))
            /\ (pc \in Parsed =>
                  /\ Len(rows) >= 1
                  /\ Len(demos) = Len(rows) - 1
                  /\ \A i \in 1..Len(demos) :
                        /\ demos[i].title = rows[i + 1][1]
                        /\ demos[i].nick = rows[i + 1][2]
                        /\ demos[i].min \o <<":">> \o demos[i].sec = rows[i + 1][3])

\* C8 witness: a well-formed file of three rows has been parsed
C8_Witness ==
    /\ script = "demo" /\ pc = "demo_parsed"
    /\ C8_WellFormed(Get(csvfile))
    /\ Len(Get(csvfile)) = 3
    /\ Get(csvfile)[2] # Get(csvfile)[3]

\* what every line of a row carries: title, nickname and, for a row with a
\* fourth column, the version suffix
C9_Subject(row) ==
    row[1] \o <<" ", "(">> \o row[2] \o <<")">>
        \o (IF Len(row) >= 4 THEN <<" ", "(">> \o row[4] \o <<")">> ELSE <<>>)

\* the link of a row: the time M:SS written MmSSs
C9_Url(slug, row) ==
    WatchPrefix \o slug \o <<"&", "t", "=">>
        \o [i \in 1..(Len(row[3]) + 1) |->
               IF i = Len(row[3]) + 1 THEN "s"
               ELSE IF row[3][i] = ":" THEN "m" ELSE row[3][i]]

\* C9: after a successful parse of N data rows, each section printed has N
\* lines, the i-th about row i+1 with its title and nickname, and with the
\* suffix ' ({version})' exactly when the row has a fourth column.
C9_LinesPerSection ==
    (script = "demo" /\ pc \in Parsed) =>
        LET rows == Get(csvfile)
            n == Len(rows) - 1
        IN  /\ Len(stdout) = (CASE pc = "demo_parsed" -> 0
                                [] pc = "demo_youtube" -> 1
                                [] pc = "demo_blog" -> 2
                                [] pc = "done" -> 3)
            /\ \A k \in 1..Len(stdout) :
                  /\ stdout[k].section = <<"youtube comments", "blog", "email">>[k]
                  /\ Len(stdout[k].lines) = n
                  /\ \A i \in 1..n :
                        stdout[k].lines[i] =
                            (CASE k = 1 ->
                                    rows[i + 1][3] \o <<" ">> \o C9_Subject(rows[i + 1])
                                        \o <<"\n">>
                               [] k = 2 ->
                                    <<"[">> \o C9_Subject(rows[i + 1]) \o <<"]", "(">>
                                        \o C9_Url(youtube_slug, rows[i + 1])
                                        \o <<")", "\n">>
                               [] k = 3 ->
                                    <<"*", " ">> \o C9_Subject(rows[i + 1])
                                        \o <<" ", "-", " ">>
                                        \o C9_Url(youtube_slug, rows[i + 1])
                                        \o <<"\n">>)

\* C9 witness: all three sections are printed for a file that has a row with a
\* fourth column and a row without
C9_Witness ==
    /\ script = "demo" /\ pc = "done"
    /\ \E i, j \in 2..Len(Get(csvfile)) :
          Len(Get(csvfile)[i]) = 3 /\ Len(Get(csvfile)[j]) = 4

\* C10: a run that was aborted has printed nothing; demo.py prints its
\* sections only after parse_data has returned, and release_announce.py only
\* after the credential was read, the issues were fetched and grouped and the
\* names were joined. A run that was asked for help has failed at nothing: it
\* prints the help, and nothing else, and exits with status 0.
C10_NoPartialOutput ==
    /\ (pc \in {"aborted", "usage_error"} => stdout = <<>>)
    /\ (error # "" /\ pc # "help_exit" => stdout = <<>> /\ ~ENABLED Next)
    /\ (pc = "help_exit" =>
          /\ error = "SystemExit(0)"
          /\ Len(stdout) = 1 /\ stdout[1].section = "help"
          /\ ~ENABLED Next)
    /\ (script = "demo" /\ pc # "help_exit" /\ stdout # <<>> =>
          /\ pc \in Parsed
          /\ parse_data(csvfile).ok)
    /\ (script = "release" /\ pc # "help_exit" /\ stdout # <<>> =>
          /\ pc \in Joined
          /\ environ # None
          /\ Get(environ).REDMINE_KEY # None
          /\ issues # None
          /\ Len(projects) >= 1
          /\ Len(project_str) >= 1)

\* C10 witness: the last step before the email, the join, has aborted the run
C10_Witness ==
    script = "release" /\ pc = "aborted" /\ error = "IndexError"

====
